---- MODULE Spec2Model ----
(***************************************************************************)
(* Model of the grid-topology stages of scripts/build_osm_network.py:      *)
(* station clustering (set_substations_ids), consolidation of buses        *)
(* (merge_stations_same_station_id), endpoint assignment (set_lines_ids),  *)
(* removal of self loops, synthesis of transformers and converters, and    *)
(* the splitting of overpassing lines (fix_overpassing_lines); of the      *)
(* region partitioner and the per-country loop of                          *)
(* scripts/build_bus_regions.py; and of _load_buses_from_osm of            *)
(* scripts/base_network.py.                                                 *)
(*                                                                         *)
(* Tables (GeoDataFrames) are sequences of records in row order; with the  *)
(* default RangeIndex a row's label is its position (0-based in the code,  *)
(* 1-based here).  Coordinates in geo_crs are integers counting 10^-5      *)
(* degree; coordinates in distance_crs are integers counting metres.       *)
(***************************************************************************)
EXTENDS Integers, Sequences, FiniteSets, TLC

VARIABLES
    pc,            \* the stage or statement the run is at
    buses,         \* the bus table as read, station_id written in place
    buses_clean,   \* the consolidated bus table of merge_stations_same_station_id
    lines,         \* the line table
    tol,           \* the tolerance of the stage, in metres
    i,             \* the row the loop of set_substations_ids is at
    station_id,    \* the counter station_id of set_substations_ids
    transformers,  \* the table of get_transformers
    converters,    \* the table of get_converters
    lines_to_add,  \* fix_overpassing_lines: the segments of each split line
    lines_to_split, \* fix_overpassing_lines: the labels of the split lines
    points,        \* custom_voronoi_partition_pts: the seed locations
    outline,       \* custom_voronoi_partition_pts: the outline polygon
    polygons_arr,  \* custom_voronoi_partition_pts: the regions returned
    network,       \* build_bus_regions: n.buses, the buses of the base network
    country_shapes,   \* build_bus_regions: the onshore outline of each country
    offshore_shapes,  \* build_bus_regions: the offshore outline of the countries that have one
    country,          \* build_bus_regions: the position of the loop in countries
    onshore_regions,  \* build_bus_regions: the list of onshore region tables
    offshore_regions, \* build_bus_regions: the list of offshore region tables
    regions_onshore,  \* build_bus_regions: the file written, or "none"
    regions_offshore, \* build_bus_regions: the file written, or "none"
    log,              \* the records given to the logger
    config            \* build_osm_network: the settings of the run

\* the state of scripts/build_bus_regions.py, the log and the settings
region_vars == <<points, outline, polygons_arr, network, country_shapes,
                 offshore_shapes, country, onshore_regions, offshore_regions,
                 regions_onshore, regions_offshore, log, config>>

vars == <<pc, buses, buses_clean, lines, tol, i, station_id, transformers,
          converters, lines_to_add, lines_to_split, points, outline,
          polygons_arr, network, country_shapes, offshore_shapes, country,
          onshore_regions, offshore_regions, regions_onshore, regions_offshore,
          log, config>>

\* build_bus_regions.py has not run, and no setting is read
NoRegions ==
    /\ points = <<>>
    /\ outline = {}
    /\ polygons_arr = <<>>
    /\ network = <<>>
    /\ country_shapes = <<>>
    /\ offshore_shapes = <<>>
    /\ country = 1
    /\ onshore_regions = <<>>
    /\ offshore_regions = <<>>
    /\ regions_onshore = "none"
    /\ regions_offshore = "none"
    /\ log = <<>>
    /\ config = <<>>

(***************************************************************************)
(* Bounds of the model.                                                    *)
(***************************************************************************)
MaxBuses == 3
MaxX == 2
MaxY == 1
MaxTol == 2
MaxRawBuses == 3

(***************************************************************************)
(* Helpers on sequences, sets and numbers.                                  *)
(***************************************************************************)
Range(s) == {s[k] : k \in DOMAIN s}

Min(S) == CHOOSE m \in S : \A n \in S : m <= n

Abs(n) == IF n < 0 THEN -n ELSE n

SeqsUpTo(S, n) == UNION {[1..k -> S] : k \in 1..n}

RECURSIVE Sum(_, _)
\* the sum of f[k] for k in S
Sum(f, S) ==
    IF S = {} THEN 0 ELSE LET k == CHOOSE k \in S : TRUE IN f[k] + Sum(f, S \ {k})

RECURSIVE SortedSeq(_)
\* the integers of S in ascending order
SortedSeq(S) ==
    IF S = {} THEN <<>> ELSE <<Min(S)>> \o SortedSeq(S \ {Min(S)})

\* np.round(num / den, precision) of a value counted in 10^-5: the nearest
\* multiple of q == 10^(5 - precision), a tie going to the even multiple
RoundHalfEven(num, den, q) ==
    LET d == den * q
        f == num \div d
        r == num - f * d
    IN IF 2 * r < d THEN q * f
       ELSE IF 2 * r > d THEN q * (f + 1)
       ELSE IF f % 2 = 0 THEN q * f ELSE q * (f + 1)

(***************************************************************************)
(* Geometry.  A point is <<x, y>>.                                          *)
(***************************************************************************)
\* GeoSeries.to_crs(distance_crs): degrees to metres.  A degree of longitude
\* and a degree of latitude are not the same number of metres.
to_crs(p) == <<p[1], 2 * p[2]>>

\* squared euclidean distance of two points of the same crs
Dist2(p, q) == (p[1] - q[1]) * (p[1] - q[1]) + (p[2] - q[2]) * (p[2] - q[2])

\* a slip: "<" for "<="
WithinTolStrict(p, q, t) == t >= 0 /\ Dist2(p, q) < t * t

\* a.distance(b) <= t for points a, b of distance_crs
WithinTol(p, q, t) == t >= 0 /\ Dist2(p, q) <= t * t

(***************************************************************************)
(* set_substations_ids                                                      *)
(***************************************************************************)
\* temp_bus_geom = buses.geometry.to_crs(distance_crs)
temp_bus_geom(b) == [k \in DOMAIN b |-> to_crs(b[k].geometry)]

\* a slip: the distance taken between the unprojected geometries
close_nodes_geo(b, k, t) ==
    {j \in DOMAIN b : WithinTol(b[j].geometry, b[k].geometry, t)}

\* np.flatnonzero(temp_bus_geom.distance(temp_bus_geom.loc[i]) <= tol)
close_nodes(b, k, t) ==
    {j \in DOMAIN b : WithinTol(temp_bus_geom(b)[j], temp_bus_geom(b)[k], t)}

\* a slip: the value written to the nodes that hold no id only
SetStationId_unassigned(b, nodes, value) ==
    [k \in DOMAIN b |->
        IF k \in nodes /\ b[k].station_id < 0 THEN [b[k] EXCEPT !.station_id = value]
        ELSE b[k]]

\* buses.loc[buses.index[nodes], "station_id"] = value
SetStationId(b, nodes, value) ==
    [k \in DOMAIN b |-> IF k \in nodes THEN [b[k] EXCEPT !.station_id = value]
                                        ELSE b[k]]

\* a slip: min() for max()
all_neg_min(b, nodes) == \E j \in nodes : b[j].station_id < 0

\* subset_substation_ids.max() < 0  (the maximum of no value is NaN: False)
all_neg(b, nodes) == nodes # {} /\ \A j \in nodes : b[j].station_id < 0

\* a slip: max() for min()
some_neg_max(b, nodes) == nodes # {} /\ \A j \in nodes : b[j].station_id < 0

\* subset_substation_ids.min() < 0
some_neg(b, nodes) == \E j \in nodes : b[j].station_id < 0

\* a slip: the test "substation_id > 0" for "substation_id >= 0"
sub_id_positive(b, nodes) ==
    IF \E j \in nodes : b[j].station_id > 0
    THEN b[Min({j \in nodes : b[j].station_id > 0})].station_id
    ELSE -1

\* the first station_id >= 0 of the subset in row order, -1 when there is none
sub_id(b, nodes) ==
    IF \E j \in nodes : b[j].station_id >= 0
    THEN b[Min({j \in nodes : b[j].station_id >= 0})].station_id
    ELSE -1

\* a slip: station_id += 1 after the propagation of an id too
VisitBus_counting(b, sid, k, t) ==
    LET cn == close_nodes(b, k, t) IN
    IF b[k].station_id >= 0 THEN [buses |-> b, station_id |-> sid]
    ELSE IF all_neg(b, cn)
    THEN [buses |-> SetStationId(b, cn, sid), station_id |-> sid + 1]
    ELSE [buses |-> SetStationId(b, cn, sub_id(b, cn)), station_id |-> sid + 1]

\* One iteration of the loop over the buses: the table and the counter after
\* bus k is visited.
VisitBus(b, sid, k, t) ==
    LET cn == close_nodes(b, k, t) IN
    IF b[k].station_id >= 0 THEN [buses |-> b, station_id |-> sid]
    ELSE IF Cardinality(cn) = 1
    THEN [buses |-> SetStationId(b, {k}, sid), station_id |-> sid + 1]
    ELSE IF all_neg(b, cn)
    THEN [buses |-> SetStationId(b, cn, sid), station_id |-> sid + 1]
    ELSE IF some_neg(b, cn)
    THEN [buses |-> SetStationId(b, cn, sub_id(b, cn)), station_id |-> sid]
    ELSE [buses |-> b, station_id |-> sid]

\* buses["station_id"] = -1: the column is added, or overwritten
InitStationIds(b) ==
    [k \in DOMAIN b |->
        [f \in DOMAIN b[k] \cup {"station_id"} |->
            IF f = "station_id" THEN -1 ELSE b[k][f]]]

RECURSIVE stations_loop(_, _, _, _)
\* the loop over the rows from row k on
stations_loop(b, sid, k, t) ==
    IF k > Len(b) THEN b
    ELSE LET r == VisitBus(b, sid, k, t)
         IN stations_loop(r.buses, r.station_id, k + 1, t)

\* the whole pass: the bus table with the station ids written
set_substations_ids(b, t) == stations_loop(InitStationIds(b), 0, 1, t)

(***************************************************************************)
(* merge_stations_same_station_id                                           *)
(***************************************************************************)
\* defaults of merge_stations_same_station_id, delta_lon and delta_lat
\* counted in 10^-5 degree (0.001 degree)
delta_lon == 100
delta_lat == 100
precision == 4

\* np.round(value, precision) of num / den
np_round(num, den) == RoundHalfEven(num, den, 10 ^ (5 - precision))

\* False sorts before True
DcRank(d) == IF d THEN 1 ELSE 0

\* order of the keys of groupby(by=["voltage", "dc"])
KeyBefore(a, b) ==
    \/ a[1] < b[1]
    \/ a[1] = b[1] /\ DcRank(a[2]) < DcRank(b[2])

RECURSIVE SortedKeys(_)
\* the (voltage, dc) keys of S in groupby order
SortedKeys(S) ==
    IF S = {} THEN <<>>
    ELSE LET m == CHOOSE m \in S : \A n \in S \ {m} : KeyBefore(m, n)
         IN <<m>> \o SortedKeys(S \ {m})

\* a slip: the inner groupby run on the whole table instead of g_value
StationRows_all(b, g_name) == b

\* g_value of buses.groupby(by="station_id"): the rows of station g_name
StationRows(b, g_name) == SelectSeq(b, LAMBDA r : r.station_id = g_name)

\* a slip: the location of the first bus of the station for the mean
station_point_first(g_value) ==
    <<np_round(g_value[1].geometry[1], 1), np_round(g_value[1].geometry[2], 1)>>

\* np.round(g_value.geometry.x.mean(), precision), and the same for y
station_point(g_value) ==
    <<np_round(Sum([k \in DOMAIN g_value |-> g_value[k].geometry[1]],
                   DOMAIN g_value), Len(g_value)),
      np_round(Sum([k \in DOMAIN g_value |-> g_value[k].geometry[2]],
                   DOMAIN g_value), Len(g_value))>>

\* a slip: the offset not multiplied by the group counter v_it
group_location_unshifted(point, v_it) ==
    <<np_round(point[1] + delta_lon, 1), np_round(point[2] + delta_lat, 1)>>

\* lon_bus, lat_bus of the v_it-th group of a station
group_location(point, v_it) ==
    <<np_round(point[1] + v_it * delta_lon, 1),
      np_round(point[2] + v_it * delta_lat, 1)>>

\* the row appended to buses_clean for group v_name, the v_it-th of station
\* g_name, when n_buses rows were appended before
clean_bus(g_value, g_name, v_name, v_it, n_buses) ==
    LET bus_row == SelectSeq(g_value,
                       LAMBDA r : r.voltage = v_name[1] /\ r.dc = v_name[2])
        loc == group_location(station_point(g_value), v_it)
    IN [bus_id |-> n_buses,
        station_id |-> g_name,
        voltage |-> v_name[1],
        dc |-> \A k \in DOMAIN bus_row : bus_row[k].dc,
        lon |-> loc[1],
        lat |-> loc[2],
        country |-> bus_row[1].country,
        geometry |-> loc]

\* the keys of g_value.groupby(by=["voltage", "dc"]) in order
station_keys(g_value) ==
    SortedKeys({<<g_value[k].voltage, g_value[k].dc>> : k \in DOMAIN g_value})

\* the inner loop: the rows of one station, n_buses rows appended before
station_buses(b, g_name, n_buses) ==
    LET g_value == StationRows(b, g_name)
        keys == station_keys(g_value)
    IN [v \in DOMAIN keys |->
          clean_bus(g_value, g_name, keys[v], v - 1, n_buses + v - 1)]

RECURSIVE merge_loop(_, _, _)
\* the outer loop over the stations left, in ascending station_id
merge_loop(b, stations, clean) ==
    IF stations = <<>> THEN clean
    ELSE merge_loop(b, Tail(stations),
             clean \o station_buses(b, Head(stations), Len(clean)))

merge_stations_same_station_id(b) ==
    merge_loop(b, SortedSeq({b[k].station_id : k \in DOMAIN b}), <<>>)

(***************************************************************************)
(* get_transformers and get_converters                                      *)
(***************************************************************************)
RECURSIVE sort_values(_, _)
\* the row labels S of table b in ascending voltage, rows of one voltage in
\* table order: buses.sort_values("voltage", ascending=True)
sort_values(b, S) ==
    IF S = {} THEN <<>>
    ELSE LET m == Min({k \in S : \A j \in S : b[k].voltage <= b[j].voltage})
         IN <<m>> \o sort_values(b, S \ {m})

\* the labels of one group of sorted.groupby(by="station_id")
group_of(b, sorted, g_name) ==
    SelectSeq(sorted, LAMBDA k : b[k].station_id = g_name)

\* a slip: a transformer from the lowest bus to every other bus
station_transformers_star(b, g_name, g_value) ==
    [id \in 1..(Len(g_value) - 1) |->
        [line_id |-> <<"transf", g_name, id - 1>>,
         bus0 |-> b[g_value[1]].bus_id,
         bus1 |-> b[g_value[id + 1]].bus_id,
         voltage_bus0 |-> b[g_value[1]].voltage,
         voltage_bus1 |-> b[g_value[id + 1]].voltage,
         country |-> b[g_value[1]].country,
         geometry |-> <<b[g_value[1]].geometry, b[g_value[id + 1]].geometry>>]]

\* the rows appended for one station: for id in range(0, n_voltages - 1)
station_transformers(b, g_name, g_value) ==
    [id \in 1..(Len(g_value) - 1) |->
        [line_id |-> <<"transf", g_name, id - 1>>,
         bus0 |-> b[g_value[id]].bus_id,
         bus1 |-> b[g_value[id + 1]].bus_id,
         voltage_bus0 |-> b[g_value[id]].voltage,
         voltage_bus1 |-> b[g_value[id + 1]].voltage,
         country |-> b[g_value[id]].country,
         geometry |-> <<b[g_value[id]].geometry, b[g_value[id + 1]].geometry>>]]

RECURSIVE transformers_loop(_, _, _, _)
transformers_loop(b, sorted, stations, df_transformers) ==
    IF stations = <<>> THEN df_transformers
    ELSE transformers_loop(b, sorted, Tail(stations),
             df_transformers
                 \o station_transformers(b, Head(stations),
                                         group_of(b, sorted, Head(stations))))

get_transformers(b) ==
    LET buses_ac == {k \in DOMAIN b : ~b[k].dc}
    IN transformers_loop(b, sort_values(b, buses_ac),
           SortedSeq({b[k].station_id : k \in buses_ac}), <<>>)

\* a slip: the AC bus of the lowest voltage instead of the closest one
closest_ac_lowest(b, ac, u) == ac[1]

\* ac_voltages.sub(u).abs().idxmin(): the first label of ac, the AC rows in
\* ascending voltage, whose voltage is closest to u
closest_ac(b, ac, u) ==
    ac[Min({n \in DOMAIN ac : \A m \in DOMAIN ac :
                Abs(b[ac[n]].voltage - u) <= Abs(b[ac[m]].voltage - u)})]

\* the rows appended for one station
station_converters(b, g_name, g_value) ==
    LET dc_rows == SelectSeq(g_value, LAMBDA k : b[k].dc)
        ac_rows == SelectSeq(g_value, LAMBDA k : ~b[k].dc)
    IN IF dc_rows # <<>> /\ ac_rows # <<>>
       THEN [n \in DOMAIN dc_rows |->
               LET u == b[dc_rows[n]].voltage
                   id_0 == SelectSeq(dc_rows, LAMBDA k : b[k].voltage = u)[1]
                   id_1 == closest_ac(b, ac_rows, u)
               IN [converter_id |-> <<"convert", g_name, id_0 - 1>>,
                   bus0 |-> b[id_0].bus_id,
                   bus1 |-> b[id_1].bus_id,
                   underground |-> FALSE,
                   under_construction |-> FALSE,
                   country |-> b[id_0].country,
                   geometry |-> <<b[id_0].geometry, b[id_1].geometry>>]]
       ELSE <<>>

RECURSIVE converters_loop(_, _, _, _)
converters_loop(b, sorted, stations, df_converters) ==
    IF stations = <<>> THEN df_converters
    ELSE converters_loop(b, sorted, Tail(stations),
             df_converters
                 \o station_converters(b, Head(stations),
                                       group_of(b, sorted, Head(stations))))

get_converters(b) ==
    converters_loop(b, sort_values(b, DOMAIN b),
        SortedSeq({b[k].station_id : k \in DOMAIN b}), <<>>)

Grid == (0..MaxX) \X (0..MaxY)

RawPoint == [geometry : Grid, station_id : {-1}]

InitStations ==
    /\ pc = "set_substations_ids"
    /\ buses \in SeqsUpTo(RawPoint, MaxBuses)
    /\ tol \in 0..MaxTol
    /\ i = 1
    /\ station_id = 0
    /\ buses_clean = <<>>
    /\ lines = <<>>
    /\ transformers = <<>>
    /\ converters = <<>>
    /\ lines_to_add = <<>>
    /\ lines_to_split = <<>>
    /\ NoRegions

VisitNextBus ==
    /\ pc = "set_substations_ids"
    /\ i <= Len(buses)
    /\ LET r == VisitBus(buses, station_id, i, tol) IN
         /\ buses' = r.buses
         /\ station_id' = r.station_id
    /\ i' = i + 1
    /\ UNCHANGED region_vars
    /\ UNCHANGED <<pc, buses_clean, lines, tol, transformers, converters,
                   lines_to_add, lines_to_split>>

ReturnStations ==
    /\ pc = "set_substations_ids"
    /\ i > Len(buses)
    /\ pc' = "stations_set"
    /\ UNCHANGED region_vars
    /\ UNCHANGED <<buses, buses_clean, lines, tol, i, station_id, transformers,
                   converters,
                   lines_to_add, lines_to_split>>

NextStations == VisitNextBus \/ ReturnStations

SpecStations == InitStations /\ [][NextStations]_vars

(***************************************************************************)
(* set_substations_ids on buses along a road, a metre apart or more.        *)
(***************************************************************************)
MaxChainBuses == 5

ChainLocations == {<<0, 0>>, <<1, 0>>, <<2, 0>>, <<3, 0>>, <<4, 0>>}

ChainPoint == [geometry : ChainLocations, station_id : {-1}]

\* values of tol, in metres
ChainTolerances == {1}

InitChain ==
    /\ pc = "set_substations_ids"
    /\ buses \in SeqsUpTo(ChainPoint, MaxChainBuses)
    /\ tol \in ChainTolerances
    /\ i = 1
    /\ station_id = 0
    /\ buses_clean = <<>>
    /\ lines = <<>>
    /\ transformers = <<>>
    /\ converters = <<>>
    /\ lines_to_add = <<>>
    /\ lines_to_split = <<>>
    /\ NoRegions

SpecChain == InitChain /\ [][NextStations]_vars

(***************************************************************************)
(* line_endings_to_bus_conversion, set_lines_ids, set_lv_substations        *)
(***************************************************************************)
\* row r with the columns last of cols set, or added
WithColumns(r, cols) ==
    [f \in DOMAIN r \cup DOMAIN cols |-> IF f \in DOMAIN cols THEN cols[f] ELSE r[f]]

\* geometry.boundary: the two end points of a path, none when the path is
\* empty or closed
boundary(geometry) ==
    IF geometry = <<>> THEN <<>>
    ELSE IF geometry[1] = geometry[Len(geometry)] THEN <<>>
    ELSE <<geometry[1], geometry[Len(geometry)]>>

\* whether p.geoms[0] or p.geoms[1] raises IndexError for a row of the table
EndingsRaise(t) == \E k \in DOMAIN t : boundary(t[k].geometry) = <<>>

\* the table with bus_0_coors and bus_1_coors (and their lon, lat) set
line_endings_to_bus_conversion(t) ==
    [k \in DOMAIN t |->
        WithColumns(t[k], [bus_0_coors |-> boundary(t[k].geometry)[1],
                           bus_1_coors |-> boundary(t[k].geometry)[2]])]

\* a slip: the candidates selected by voltage alone
buses_sel_voltage(b, row) == {k \in DOMAIN b : b[k].voltage = row.voltage}

\* busesepsg[(buses["voltage"] == row["voltage"]) & (buses["dc"] == row["dc"])]
buses_sel(b, row) ==
    {k \in DOMAIN b : b[k].voltage = row.voltage /\ b[k].dc = row.dc}

\* buses_sel.geometry.distance(point).idxmin(): the first label of sel at the
\* least distance, in distance_crs, of the point
idxmin_distance(b, sel, point) ==
    Min({k \in sel : \A j \in sel :
            Dist2(to_crs(b[k].geometry), to_crs(point))
                <= Dist2(to_crs(b[j].geometry), to_crs(point))})

\* a slip: the path is not extended to the bus found for its second end
set_line_ids_first_end(b, row, line) ==
    LET sel == buses_sel(b, row)
        bus0_id == idxmin_distance(b, sel, boundary(row.geometry)[1])
        bus1_id == idxmin_distance(b, sel, boundary(row.geometry)[2])
    IN [line EXCEPT !.bus0 = b[bus0_id].bus_id,
                    !.bus1 = b[bus1_id].bus_id,
                    !.geometry =
                        IF b[bus0_id].geometry # boundary(row.geometry)[1]
                        THEN <<b[bus0_id].geometry>> \o line.geometry
                        ELSE line.geometry]

\* one iteration of the loop of set_lines_ids: row is the row of linesepsg
\* (the path as it was before the loop), line the row of lines
set_line_ids(b, row, line) ==
    LET sel == buses_sel(b, row)
        bus0_id == idxmin_distance(b, sel, boundary(row.geometry)[1])
        bus1_id == idxmin_distance(b, sel, boundary(row.geometry)[2])
        geometry0 ==
            IF Dist2(to_crs(b[bus0_id].geometry),
                     to_crs(boundary(row.geometry)[1])) > 0
            THEN <<b[bus0_id].geometry>> \o line.geometry
            ELSE line.geometry
        geometry1 ==
            IF Dist2(to_crs(b[bus1_id].geometry),
                     to_crs(boundary(row.geometry)[2])) > 0
            THEN geometry0 \o <<b[bus1_id].geometry>>
            ELSE geometry0
    IN [line EXCEPT !.bus0 = b[bus0_id].bus_id,
                    !.bus1 = b[bus1_id].bus_id,
                    !.geometry = geometry1]

\* lines["bus0"] = -1 ; lines["bus1"] = -1
InitLineIds(t) == [k \in DOMAIN t |-> WithColumns(t[k], [bus0 |-> -1, bus1 |-> -1])]

RECURSIVE lines_loop(_, _, _, _)
\* the loop over the rows from row k on; raised when idxmin is taken of no
\* candidate (ValueError) or a path has no boundary point (IndexError)
lines_loop(t, linesepsg, b, k) ==
    IF k > Len(t) THEN [lines |-> t, raised |-> FALSE]
    ELSE IF buses_sel(b, linesepsg[k]) = {} \/ boundary(linesepsg[k].geometry) = <<>>
    THEN [lines |-> t, raised |-> TRUE]
    ELSE lines_loop([t EXCEPT ![k] = set_line_ids(b, linesepsg[k], t[k])],
                    linesepsg, b, k + 1)

set_lines_ids(t, b) == lines_loop(InitLineIds(t), t, b, 1)

\* lines.drop(lines[lines["bus0"] == lines["bus1"]].index, inplace=True)
drop_self_loops(t) == SelectSeq(t, LAMBDA r : r.bus0 # r.bus1)

\* buses.station_id.duplicated(keep=False)
station_duplicated(b, k) ==
    \E j \in DOMAIN b : j # k /\ b[j].station_id = b[k].station_id

\* a slip: every bus of a station taken for its first row
lv_bus_at_station_any(b, k) == k \in DOMAIN b

\* the first row of a station in sort_values(by=["station_id", "voltage"])
lv_bus_at_station(b, k) ==
    k = Min({j \in DOMAIN b :
               /\ b[j].station_id = b[k].station_id
               /\ \A m \in DOMAIN b :
                     b[m].station_id = b[k].station_id => b[j].voltage <= b[m].voltage})

set_lv_substations(b) ==
    [k \in DOMAIN b |->
        WithColumns(b[k],
            [substation_lv |-> ~station_duplicated(b, k) \/ lv_bus_at_station(b, k)])]

(***************************************************************************)
(* merge_stations_lines_by_station_id_and_voltage on a bus and a line table *)
(* as built_network passes them (the end points of the lines set).          *)
(***************************************************************************)
MaxNetBuses == 2
MaxLines == 1

\* values of group_tolerance_buses, in metres
GroupTolerances == {0, 31}

NetLocations == {<<0, 0>>, <<5, 15>>, <<40, 0>>}

NetVoltages == {110, 220}

LinePaths == {<< <<0, 0>>, <<40, 0>> >>, << <<4, 14>>, <<20, 5>>, <<38, 1>> >>}

NetBus == [geometry : NetLocations, voltage : NetVoltages, dc : BOOLEAN,
           country : {"BO"}]

NetLine == [line_id : {"way"}, voltage : NetVoltages, dc : BOOLEAN,
            geometry : LinePaths]

InitNetwork ==
    /\ pc = "Stage 3a"
    /\ buses \in SeqsUpTo(NetBus, MaxNetBuses)
    /\ \E t \in SeqsUpTo(NetLine, MaxLines) : lines = line_endings_to_bus_conversion(t)
    /\ tol \in GroupTolerances
    /\ i = 1
    /\ station_id = 0
    /\ buses_clean = <<>>
    /\ transformers = <<>>
    /\ converters = <<>>
    /\ lines_to_add = <<>>
    /\ lines_to_split = <<>>
    /\ NoRegions

\* Stage 3a: set_substations_ids(buses, distance_crs, tol=tol)
Stage3a ==
    /\ pc = "Stage 3a"
    /\ buses' = set_substations_ids(buses, tol)
    /\ pc' = "Stage 3b"
    /\ UNCHANGED region_vars
    /\ UNCHANGED <<buses_clean, lines, tol, i, station_id, transformers,
                   converters,
                   lines_to_add, lines_to_split>>

\* Stage 3b: buses = merge_stations_same_station_id(buses)
Stage3b ==
    /\ pc = "Stage 3b"
    /\ buses_clean' = merge_stations_same_station_id(buses)
    /\ pc' = "Stage 3c"
    /\ UNCHANGED region_vars
    /\ UNCHANGED <<buses, lines, tol, i, station_id, transformers, converters,
                   lines_to_add, lines_to_split>>

\* Stage 3c: lines, buses = set_lines_ids(lines, buses, distance_crs)
Stage3c ==
    /\ pc = "Stage 3c"
    /\ LET r == set_lines_ids(lines, buses_clean) IN
         /\ lines' = r.lines
         /\ pc' = IF r.raised THEN "raised" ELSE "drop"
    /\ UNCHANGED region_vars
    /\ UNCHANGED <<buses, buses_clean, tol, i, station_id, transformers,
                   converters,
                   lines_to_add, lines_to_split>>

\* a slip: the function without its lines 522 to 525 (a self loop is a closed
\* path, on which line_endings_to_bus_conversion raises)
ReturnWithoutDrop ==
    /\ pc = "drop"
    /\ buses_clean' = set_lv_substations(buses_clean)
    /\ pc' = "returned"
    /\ UNCHANGED region_vars
    /\ UNCHANGED <<buses, lines, tol, i, station_id, transformers, converters,
                   lines_to_add, lines_to_split>>

\* the rest of the function: the self loops dropped, the line endings and
\* substation_lv set, the index reset, and the return
DropAndReturn ==
    /\ pc = "drop"
    /\ LET kept == drop_self_loops(lines) IN
         IF EndingsRaise(kept)
         THEN /\ lines' = kept
              /\ pc' = "raised"
              /\ UNCHANGED buses_clean
         ELSE /\ lines' = line_endings_to_bus_conversion(kept)
              /\ buses_clean' = set_lv_substations(buses_clean)
              /\ pc' = "returned"
    /\ UNCHANGED region_vars
    /\ UNCHANGED <<buses, tol, i, station_id, transformers, converters,
                   lines_to_add, lines_to_split>>

NextNetwork == Stage3a \/ Stage3b \/ Stage3c \/ DropAndReturn

SpecNetwork == InitNetwork /\ [][NextNetwork]_vars

(***************************************************************************)
(* Consolidation and equipment: set_substations_ids, then                   *)
(* merge_stations_same_station_id, get_transformers and get_converters as   *)
(* built_network runs them when group_close_buses is set.                   *)
(***************************************************************************)
RawLocations == {<<0, 0>>, <<5, 15>>, <<40, 0>>}

Voltages == {110, 220, 330}

\* the country tag of a bus of the substations file, set by its location: a
\* border runs between the two locations that are within the tolerance
country_at(geometry) == IF geometry = <<5, 15>> THEN "PE" ELSE "BO"

RawBus == {[geometry |-> g, voltage |-> v, dc |-> d, country |-> country_at(g)] :
              g \in RawLocations, v \in Voltages, d \in BOOLEAN}

InitConsolidate ==
    /\ pc = "Stage 3a"
    /\ buses \in SeqsUpTo(RawBus, MaxRawBuses)
    /\ tol \in GroupTolerances
    /\ i = 1
    /\ station_id = 0
    /\ buses_clean = <<>>
    /\ lines = <<>>
    /\ transformers = <<>>
    /\ converters = <<>>
    /\ lines_to_add = <<>>
    /\ lines_to_split = <<>>
    /\ NoRegions

\* Stage 3a: set_substations_ids(buses, distance_crs, tol=tol)
SetSubstationsIds ==
    /\ pc = "Stage 3a"
    /\ buses' = set_substations_ids(buses, tol)
    /\ pc' = "Stage 3b"
    /\ UNCHANGED region_vars
    /\ UNCHANGED <<buses_clean, lines, tol, i, station_id, transformers,
                   converters,
                   lines_to_add, lines_to_split>>

\* Stage 3b: buses = merge_stations_same_station_id(buses)
MergeStations ==
    /\ pc = "Stage 3b"
    /\ buses_clean' = merge_stations_same_station_id(buses)
    /\ pc' = "get_transformers"
    /\ UNCHANGED region_vars
    /\ UNCHANGED <<buses, lines, tol, i, station_id, transformers, converters,
                   lines_to_add, lines_to_split>>

GetTransformers ==
    /\ pc = "get_transformers"
    /\ transformers' = get_transformers(buses_clean)
    /\ pc' = "get_converters"
    /\ UNCHANGED region_vars
    /\ UNCHANGED <<buses, buses_clean, lines, tol, i, station_id, converters,
                   lines_to_add, lines_to_split>>

GetConverters ==
    /\ pc = "get_converters"
    /\ converters' = get_converters(buses_clean)
    /\ pc' = "Save outputs"
    /\ UNCHANGED region_vars
    /\ UNCHANGED <<buses, buses_clean, lines, tol, i, station_id, transformers,
                   lines_to_add, lines_to_split>>

NextConsolidate ==
    SetSubstationsIds \/ MergeStations \/ GetTransformers \/ GetConverters

SpecConsolidate == InitConsolidate /\ [][NextConsolidate]_vars

(***************************************************************************)
(* fix_overpassing_lines and _split_linestring_by_point                     *)
(***************************************************************************)
\* a path, every vertex in distance_crs: lines.to_crs(distance_crs)
path_to_crs(geometry) == [k \in DOMAIN geometry |-> to_crs(geometry[k])]

Dot(a, b, p) == (p[1] - a[1]) * (b[1] - a[1]) + (p[2] - a[2]) * (b[2] - a[2])

Cross(a, b, p) == (b[1] - a[1]) * (p[2] - a[2]) - (b[2] - a[2]) * (p[1] - a[1])

\* the distance of point p and the segment from a to b is at most t
SegmentWithinTol(a, b, p, t) ==
    IF Dot(a, b, p) <= 0 THEN WithinTol(a, p, t)
    ELSE IF Dot(a, b, p) >= Dist2(a, b) THEN WithinTol(b, p, t)
    ELSE t >= 0 /\ Cross(a, b, p) * Cross(a, b, p) <= t * t * Dist2(a, b)

\* point.distance(path) <= t
PathWithinTol(geometry, p, t) ==
    \E k \in 1..(Len(geometry) - 1) :
        SegmentWithinTol(geometry[k], geometry[k + 1], p, t)

\* bus_in_tol_epsg: the labels of the buses within tol of the path, without
\* those that fail  distance(end 0) > tol | distance(end 1) > tol
bus_in_tol(b, geometry, t) ==
    {k \in DOMAIN b :
        /\ PathWithinTol(path_to_crs(geometry), to_crs(b[k].geometry), t)
        /\ \/ ~WithinTol(to_crs(b[k].geometry), to_crs(boundary(geometry)[1]), t)
           \/ ~WithinTol(to_crs(b[k].geometry), to_crs(boundary(geometry)[2]), t)}

\* p lies on the segment from a to b
OnSegment(a, b, p) ==
    /\ Cross(a, b, p) = 0
    /\ 0 <= Dot(a, b, p) /\ Dot(a, b, p) <= Dist2(a, b)

\* the segments of the path that p lies on
SegmentsThrough(linestring, p) ==
    {k \in 1..(Len(linestring) - 1) : OnSegment(linestring[k], linestring[k + 1], p)}

\* shapely.ops.split(linestring, p) for a point p: the path is cut where p
\* lies in its interior, at the first place met along the path, and is left
\* whole when p is not on the path or is one of its end points
split(linestring, p) ==
    IF SegmentsThrough(linestring, p) = {} THEN <<linestring>>
    ELSE IF p \in Range(boundary(linestring)) \/ linestring[1] = p THEN <<linestring>>
    ELSE LET k == Min(SegmentsThrough(linestring, p))
         IN IF p = linestring[k + 1]
            THEN <<SubSeq(linestring, 1, k + 1),
                   SubSeq(linestring, k + 1, Len(linestring))>>
            ELSE <<SubSeq(linestring, 1, k) \o <<p>>,
                   <<p>> \o SubSeq(linestring, k + 1, Len(linestring))>>

RECURSIVE Flatten(_)
\* [lstring for tval in temp_list for lstring in tval.geoms]
Flatten(temp_list) ==
    IF temp_list = <<>> THEN <<>> ELSE Head(temp_list) \o Flatten(Tail(temp_list))

RECURSIVE split_linestring_by_point(_, _)
\* _split_linestring_by_point on the list of paths so far and the pts left
split_linestring_by_point(list_linestrings, pts) ==
    IF pts = <<>> THEN list_linestrings
    ELSE split_linestring_by_point(
             Flatten([n \in DOMAIN list_linestrings |->
                         split(list_linestrings[n], Head(pts))]),
             Tail(pts))

\* buses.geometry.loc[bus_in_tol_epsg.index]: the locations in table order
buses_locs(b, labels) ==
    LET order == SortedSeq(labels) IN [n \in DOMAIN order |-> b[order[n]].geometry]

\* a slip: the copies numbered from 1
df_append_from_one(line, new_geometries) ==
    [n \in DOMAIN new_geometries |->
        [line EXCEPT !.geometry = new_geometries[n],
                     !.line_id = Append(line.line_id, n)]]

\* df_append: n_geoms copies of the row, each with its path and its line_id,
\* str(line_id) + "_" + id for id in range(n_geoms); a line_id is the sequence
\* of its parts between the "_"
df_append(line, new_geometries) ==
    [n \in DOMAIN new_geometries |->
        [line EXCEPT !.geometry = new_geometries[n],
                     !.line_id = Append(line.line_id, n - 1)]]

\* the integer square root
ISqrt(n) == CHOOSE r \in 0..n : r * r <= n /\ n < (r + 1) * (r + 1)

\* geometry.length of a path of distance_crs (whole metres)
path_length(geometry) ==
    Sum([k \in 1..(Len(geometry) - 1) |-> ISqrt(Dist2(geometry[k], geometry[k + 1]))],
        1..(Len(geometry) - 1))

\* df_to_add["length"] = df_to_add.to_crs(distance_crs).geometry.length
update_length(t) ==
    [n \in DOMAIN t |-> [t[n] EXCEPT !.length = path_length(path_to_crs(t[n].geometry))]]

RECURSIVE drop_labels(_, _)
\* lines.drop(labels): the rows of t whose label is not in labels, in order
drop_labels(t, labels) ==
    IF t = <<>> THEN <<>>
    ELSE drop_labels(SubSeq(t, 1, Len(t) - 1), labels)
             \o (IF Len(t) \in labels THEN <<>> ELSE <<t[Len(t)]>>)

\* values of overpassing_lines_tolerance, in metres
OverpassTolerances == {1, 2}

MaxOverBuses == 2
MaxOverLines == 1

OverLocations == {<<0, 0>>, <<2, 0>>, <<4, 0>>, <<3, 1>>, <<6, 0>>}

OverPaths == {<< <<0, 0>>, <<6, 0>> >>, << <<0, 0>>, <<2, 0>>, <<2, 4>> >>}

OverVoltages == {110, 220}

OverBus == [geometry : OverLocations]

OverLine == {[line_id |-> <<0>>, voltage |-> v, geometry |-> g,
              length |-> path_length(path_to_crs(g))] :
                 g \in OverPaths, v \in OverVoltages}

\* the table of lines as read: every line with its own line_id
with_line_ids(t) == [n \in DOMAIN t |-> [t[n] EXCEPT !.line_id = <<n>>]]

InitOverpass ==
    /\ pc = "Stage 3"
    /\ buses \in SeqsUpTo(OverBus, MaxOverBuses)
    /\ \E t \in SeqsUpTo(OverLine, MaxOverLines) :
          lines = line_endings_to_bus_conversion(with_line_ids(t))
    /\ tol \in OverpassTolerances
    /\ i = 1
    /\ station_id = 0
    /\ buses_clean = <<>>
    /\ transformers = <<>>
    /\ converters = <<>>
    /\ lines_to_add = <<>>
    /\ lines_to_split = <<>>
    /\ NoRegions

\* one iteration of the loop over lines.index
VerifyLine ==
    /\ pc = "Stage 3"
    /\ i <= Len(lines)
    /\ LET in_tol == bus_in_tol(buses, lines[i].geometry, tol) IN
         IF in_tol # {}
         THEN /\ lines_to_split' = Append(lines_to_split, i)
              /\ lines_to_add' =
                    Append(lines_to_add,
                           df_append(lines[i],
                               split_linestring_by_point(<<lines[i].geometry>>,
                                   buses_locs(buses, in_tol))))
         ELSE UNCHANGED <<lines_to_add, lines_to_split>>
    /\ i' = i + 1
    /\ UNCHANGED region_vars
    /\ UNCHANGED <<pc, buses, buses_clean, lines, tol, station_id, transformers,
                   converters>>

\* after the loop: pd.concat raises ValueError on an empty list; otherwise the
\* length and the end points of the segments are set, the split lines are
\* dropped and the segments appended
ConcatAndReturn ==
    /\ pc = "Stage 3"
    /\ i > Len(lines)
    /\ IF lines_to_add = <<>> \/ EndingsRaise(Flatten(lines_to_add))
       THEN /\ pc' = "raised"
            /\ UNCHANGED lines
       ELSE /\ pc' = "Stage 4"
            /\ lines' = drop_labels(lines, Range(lines_to_split))
                           \o line_endings_to_bus_conversion(
                                  update_length(Flatten(lines_to_add)))
    /\ UNCHANGED region_vars
    /\ UNCHANGED <<buses, buses_clean, tol, i, station_id, transformers,
                   converters, lines_to_add, lines_to_split>>

NextOverpass == VerifyLine \/ ConcatAndReturn

SpecOverpass == InitOverpass /\ [][NextOverpass]_vars

(***************************************************************************)
(* built_network, Stage 1/5: the line table is read and its line endings   *)
(* are computed.                                                            *)
(***************************************************************************)
MaxReadLines == 2

\* the paths of the lines file: an open path, an empty one, a closed one and
\* an open one of three points
ReadPaths == {<< <<0, 0>>, <<40, 0>> >>,
              <<>>,
              << <<0, 0>>, <<4, 0>>, <<0, 0>> >>,
              << <<4, 14>>, <<20, 5>>, <<38, 1>> >>}

ReadLine == [line_id : {"way"}, voltage : NetVoltages, geometry : ReadPaths]

InitRead ==
    /\ pc = "Stage 1"
    /\ lines \in SeqsUpTo(ReadLine, MaxReadLines)
    /\ buses = <<>>
    /\ buses_clean = <<>>
    /\ tol = 0
    /\ i = 1
    /\ station_id = 0
    /\ transformers = <<>>
    /\ converters = <<>>
    /\ lines_to_add = <<>>
    /\ lines_to_split = <<>>
    /\ NoRegions

\* lines = line_endings_to_bus_conversion(lines): p.geoms[0] or p.geoms[1]
\* raises IndexError on a boundary without points
ReadInputs ==
    /\ pc = "Stage 1"
    /\ log' = Append(log, [level |-> "info", msg |-> "Stage 1/5: Read input data"])
    /\ IF EndingsRaise(lines)
       THEN pc' = "raised" /\ UNCHANGED lines
       ELSE pc' = "Stage 2" /\ lines' = line_endings_to_bus_conversion(lines)
    /\ UNCHANGED <<buses, buses_clean, tol, i, station_id, transformers,
                   converters, lines_to_add, lines_to_split>>
    /\ UNCHANGED <<config, points, outline, polygons_arr, network, country_shapes,
                   offshore_shapes, country, onshore_regions, offshore_regions,
                   regions_onshore, regions_offshore>>

NextRead == ReadInputs

SpecRead == InitRead /\ [][NextRead]_vars

(***************************************************************************)
(* scripts/build_bus_regions.py: custom_voronoi_partition_pts.  Locations  *)
(* are points of the integer grid and a polygon is the set of the grid     *)
(* points it covers.                                                        *)
(***************************************************************************)
Max(S) == CHOOSE m \in S : \A n \in S : m >= n

\* the defaults of the parameters add_bounds_shape and multiplier
add_bounds_shape == TRUE
multiplier == 5

\* outline.boundary.bounds
bounds(shape) ==
    [minx |-> Min({p[1] : p \in shape}), miny |-> Min({p[2] : p \in shape}),
     maxx |-> Max({p[1] : p \in shape}), maxy |-> Max({p[2] : p \in shape})]

\* xmin, ymin, xmax, ymax: np.amin and np.amax of the seeds, then "check
\* bounds of the shape", where all four are taken with min
frame(pts, shape) ==
    LET xmin == Min({pts[k][1] : k \in DOMAIN pts})
        ymin == Min({pts[k][2] : k \in DOMAIN pts})
        xmax == Max({pts[k][1] : k \in DOMAIN pts})
        ymax == Max({pts[k][2] : k \in DOMAIN pts})
        o == bounds(shape)
    IN IF add_bounds_shape
       THEN [xmin |-> Min({xmin, o.minx}), ymin |-> Min({ymin, o.miny}),
             xmax |-> Min({xmax, o.maxx}), ymax |-> Min({ymax, o.maxy})]
       ELSE [xmin |-> xmin, ymin |-> ymin, xmax |-> xmax, ymax |-> ymax]

\* np.vstack((points, corners)): the seeds, then the corners of the rectangle
\* framing them
sites(pts, shape) ==
    LET f == frame(pts, shape)
        xspan == f.xmax - f.xmin
        yspan == f.ymax - f.ymin
    IN pts \o << <<f.xmin - multiplier * xspan, f.ymin - multiplier * yspan>>,
                 <<f.xmin - multiplier * xspan, f.ymax + multiplier * yspan>>,
                 <<f.xmax + multiplier * xspan, f.ymin - multiplier * yspan>>,
                 <<f.xmax + multiplier * xspan, f.ymax + multiplier * yspan>> >>

\* scipy.spatial.Voronoi raises QhullError when its sites all lie on one line
\* (the initial simplex is flat)
QhullError(s) == \A a, b, c \in Range(s) : Cross(a, b, c) = 0

\* Polygon(vor.vertices[...]).intersection(outline) for a site that has a
\* Voronoi region: the points of the outline no site is nearer to
cell(s, k, shape) ==
    {p \in shape : \A j \in DOMAIN s : Dist2(p, s[k]) <= Dist2(p, s[j])}

\* no two seeds at one location
Distinct(pts) == \A j, k \in DOMAIN pts : pts[j] = pts[k] => j = k

\* What Qhull makes of coincident seeds.  One seed of each location is kept as
\* a vertex and has a region; for the others point_region is -1, so that each
\* of them is given vor.regions[-1], the region last in the list: the region
\* of a seed, or (last = 0) a region without vertices, an empty polygon.
QhullChoices(pts) ==
    {[vertex |-> V, last |-> l] :
        V \in {W \in SUBSET DOMAIN pts :
                  \A k \in DOMAIN pts :
                      Cardinality({j \in W : pts[j] = pts[k]}) = 1},
        l \in IF Distinct(pts) THEN {0} ELSE 0..Len(pts)}

\* the else branch: the bounded Voronoi tessellation, each cell clipped
voronoi_partition(pts, shape, qh) ==
    LET s == sites(pts, shape) IN
    IF QhullError(s) THEN [raised |-> TRUE, polygons_arr |-> <<>>]
    ELSE [raised |-> FALSE,
          polygons_arr |->
              [k \in DOMAIN pts |->
                  IF k \in qh.vertex THEN cell(s, k, shape)
                  ELSE IF qh.last = 0 THEN {}
                  ELSE cell(s, qh.last, shape)]]

\* a slip: without the branch for a single seed
custom_voronoi_partition_pts_always(pts, shape, qh) ==
    voronoi_partition(pts, shape, qh)

custom_voronoi_partition_pts(pts, shape, qh) ==
    IF Len(pts) = 1 THEN [raised |-> FALSE, polygons_arr |-> <<shape>>]
    ELSE voronoi_partition(pts, shape, qh)

MaxSeeds == 2

\* the rectangle from (0, 0) to (w, h)
Rect(w, h) == (0..w) \X (0..h)

Outlines == {Rect(2, 2), Rect(4, 4), Rect(6, 6)}

SeedLocations == {<<0, 0>>, <<1, 0>>, <<0, 1>>, <<1, 1>>, <<2, 2>>}

\* build_osm_network.py has not run
NoNetwork ==
    /\ buses = <<>>
    /\ buses_clean = <<>>
    /\ lines = <<>>
    /\ tol = 0
    /\ i = 1
    /\ station_id = 0
    /\ transformers = <<>>
    /\ converters = <<>>
    /\ lines_to_add = <<>>
    /\ lines_to_split = <<>>

network_vars == <<buses, buses_clean, lines, tol, i, station_id, transformers,
                  converters, lines_to_add, lines_to_split>>

InitPartition ==
    /\ pc = "custom_voronoi_partition_pts"
    /\ NoNetwork
    /\ outline \in Outlines
    /\ points \in SeqsUpTo(SeedLocations, MaxSeeds)
    /\ polygons_arr = <<>>
    /\ network = <<>>
    /\ country_shapes = <<>>
    /\ offshore_shapes = <<>>
    /\ country = 1
    /\ onshore_regions = <<>>
    /\ offshore_regions = <<>>
    /\ regions_onshore = "none"
    /\ regions_offshore = "none"
    /\ log = <<>>
    /\ config = <<>>

\* the call: it returns the regions, or Voronoi raises
Partition ==
    /\ pc = "custom_voronoi_partition_pts"
    /\ \E qh \in QhullChoices(points) :
          LET r == custom_voronoi_partition_pts(points, outline, qh) IN
            IF r.raised
            THEN pc' = "raised" /\ UNCHANGED polygons_arr
            ELSE pc' = "returned" /\ polygons_arr' = r.polygons_arr
    /\ UNCHANGED network_vars
    /\ UNCHANGED <<config, points, outline, network, country_shapes, offshore_shapes,
                   country, onshore_regions, offshore_regions, regions_onshore,
                   regions_offshore, log>>

NextPartition == Partition

SpecPartition == InitPartition /\ [][NextPartition]_vars

(***************************************************************************)
(* scripts/build_bus_regions.py: the per-country loop of __main__ and the  *)
(* writing of the region files, with alternative_clustering off.           *)
(***************************************************************************)
\* snakemake.config["countries"]
countries == <<"BO", "PE">>

\* n.buses.loc[c_b & n.buses[flag], ["x", "y"]]: the labels of the buses of
\* country c with the flag set, in table order
locs(net, c, flag) ==
    SortedSeq({k \in DOMAIN net : net[k].country = c /\ net[k][flag]})

\* onshore_locs.values: the seed points
values(net, labels) == [n \in DOMAIN labels |-> <<net[labels[n]].x, net[labels[n]].y>>]

\* the GeoDataFrame of the regions of a country, without the rows whose
\* geometry is empty (or has no area)
region_table(net, labels, geometry, c) ==
    LET kept == SortedSeq({n \in DOMAIN labels : geometry[n] # {}}) IN
    [m \in DOMAIN kept |->
        [name |-> labels[kept[m]], x |-> net[labels[kept[m]]].x,
         y |-> net[labels[kept[m]]].y, geometry |-> geometry[kept[m]],
         country |-> c, shape_id |-> 0]]

warning(text, c) == [level |-> "warning", msg |-> text, country |-> c]

\* the body of  for country in countries  for country c: the state it leaves
country_regions(c, qh_on, qh_off) ==
    LET onshore_locs == locs(network, c, "substation_lv")
        offshore_locs == locs(network, c, "substation_off")
        same == [raised |-> FALSE, onshore_regions |-> onshore_regions,
                 offshore_regions |-> offshore_regions, log |-> log]
    IN
    IF onshore_locs = <<>>
    THEN [same EXCEPT !.log = Append(log, warning("No low voltage buses found", c))]
    ELSE
      LET on == custom_voronoi_partition_pts(values(network, onshore_locs), country_shapes[c], qh_on)
      IN
      IF on.raised THEN [same EXCEPT !.raised = TRUE]
      ELSE
        LET appended ==
              [same EXCEPT !.onshore_regions =
                  Append(onshore_regions,
                         region_table(network, onshore_locs, on.polygons_arr, c))]
        IN
        IF c \notin DOMAIN offshore_shapes
        THEN [appended EXCEPT !.log = Append(log, warning("No off-shore shapes", c))]
        ELSE IF offshore_locs = <<>>
        THEN [appended EXCEPT
                 !.log = Append(log, warning("No off-shore substations found", c))]
        ELSE
          LET off == custom_voronoi_partition_pts(values(network, offshore_locs),
                                    offshore_shapes[c], qh_off)
          IN
          IF off.raised THEN [appended EXCEPT !.raised = TRUE]
          ELSE [appended EXCEPT !.offshore_regions =
                   Append(offshore_regions,
                          region_table(network, offshore_locs, off.polygons_arr, c))]

MaxRegionBuses == 3

RegionLocations == {<<0, 0>>, <<1, 1>>}

RegionBus ==
    {[country |-> c, x |-> p[1], y |-> p[2], substation_lv |-> f[1],
      substation_off |-> f[2]] :
        c \in Range(countries), p \in RegionLocations,
        f \in {<<TRUE, FALSE>>, <<FALSE, TRUE>>}}

InitRegions ==
    /\ pc = "for country in countries"
    /\ NoNetwork
    /\ network \in SeqsUpTo(RegionBus, MaxRegionBuses)
    /\ country_shapes = [c \in Range(countries) |-> Rect(2, 2)]
    /\ offshore_shapes \in {[c \in {"BO"} |-> Rect(4, 4)],
                            [c \in {"PE"} |-> Rect(4, 4)]}
    /\ country = 1
    /\ onshore_regions = <<>>
    /\ offshore_regions = <<>>
    /\ regions_onshore = "none"
    /\ regions_offshore = "none"
    /\ log = <<>>
    /\ config = <<>>
    /\ points = <<>>
    /\ outline = {}
    /\ polygons_arr = <<>>

\* one iteration of the loop; an exception of custom_voronoi_partition_pts is
\* not caught
RegionsOfCountry ==
    /\ pc = "for country in countries"
    /\ country <= Len(countries)
    /\ LET c == countries[country] IN
       \E qh_on \in QhullChoices(values(network, locs(network, c, "substation_lv"))),
          qh_off \in QhullChoices(values(network, locs(network, c, "substation_off"))) :
          LET r == country_regions(c, qh_on, qh_off) IN
            /\ pc' = IF r.raised THEN "raised" ELSE pc
            /\ country' = IF r.raised THEN country ELSE country + 1
            /\ onshore_regions' = r.onshore_regions
            /\ offshore_regions' = r.offshore_regions
            /\ log' = r.log
    /\ UNCHANGED network_vars
    /\ UNCHANGED <<config, points, outline, polygons_arr, network, country_shapes,
                   offshore_shapes, regions_onshore, regions_offshore>>

\* offshore_shapes.to_frame(): a row for each offshore shape
shapes_frame(shapes) ==
    LET names == {c \in Range(countries) : c \in DOMAIN shapes}
        order == [n \in DOMAIN countries |-> countries[n]]
    IN [n \in {n \in DOMAIN order : order[n] \in names} |->
            [name |-> order[n], geometry |-> shapes[order[n]]]]

\* after the loop: pd.concat raises ValueError on an empty list of onshore
\* tables; otherwise both files are written
WriteRegions ==
    /\ pc = "for country in countries"
    /\ country > Len(countries)
    /\ IF onshore_regions = <<>>
       THEN pc' = "raised" /\ UNCHANGED <<regions_onshore, regions_offshore>>
       ELSE /\ pc' = "written"
            /\ regions_onshore' = Flatten(onshore_regions)
            /\ regions_offshore' =
                  IF offshore_regions # <<>> THEN Flatten(offshore_regions)
                  ELSE shapes_frame(offshore_shapes)
    /\ UNCHANGED network_vars
    /\ UNCHANGED <<config, points, outline, polygons_arr, network, country_shapes,
                   offshore_shapes, country, onshore_regions, offshore_regions,
                   log>>

NextRegions == RegionsOfCountry \/ WriteRegions

SpecRegions == InitRegions /\ [][NextRegions]_vars

(***************************************************************************)
(* scripts/base_network.py: _load_buses_from_osm.  buses is the table of   *)
(* the substations file, network the table the function returns.  A        *)
(* missing country is "nan"; lon and lat are never missing.                 *)
(***************************************************************************)
\* config["electricity"]["voltages"], in kV
electricity_voltages == <<110, 220, 380>>

\* config["base_network"]["min_voltage_rebase_voltage"] / 1000
v_min == 35

\* _rebase_voltage_to_config on one value of v_nom
rebase_voltage(v_nom) ==
    LET v_low == electricity_voltages[1]
        v_mid == electricity_voltages[2]
        v_up == electricity_voltages[3]
        v_low_mid == (v_mid - v_low) \div 2 + v_low
        v_mid_up == (v_up - v_mid) \div 2 + v_mid
    IN IF v_min <= v_nom /\ v_nom < v_low_mid THEN v_low
       ELSE IF v_low_mid <= v_nom /\ v_nom < v_mid_up THEN v_mid
       ELSE IF v_mid_up <= v_nom THEN v_up
       ELSE v_nom

\* a row of the file with bus_id as its index, without station_id, voltage
\* as v_nom in kV, dc as carrier, and x, y set
loaded_bus(row) ==
    [bus_id |-> row.bus_id, v_nom |-> row.voltage \div 1000,
     carrier |-> IF row.dc THEN "DC" ELSE "AC", lon |-> row.lon, lat |-> row.lat,
     x |-> row.lon, y |-> row.lat, country |-> row.country]

\* buses.dropna(axis="index", subset=["x", "y", "country"]): the rows kept
dropna(t) == SortedSeq({k \in DOMAIN t : t[k].country # "nan"})

load_buses_from_osm(t) ==
    LET kept == dropna(t) IN
    [n \in DOMAIN kept |->
        [loaded_bus(t[kept[n]]) EXCEPT !.v_nom = rebase_voltage(@)]]

MaxOsmBuses == 2

OsmBus == [voltage : {20000, 132000, 220000}, dc : {FALSE}, lon : {0, 1},
           lat : {0}, country : {"BO", "nan"}, station_id : {0}]

InitLoadBuses ==
    /\ pc = "_load_buses_from_osm"
    /\ \E t \in SeqsUpTo(OsmBus, MaxOsmBuses) :
          buses = [k \in DOMAIN t |-> WithColumns(t[k], [bus_id |-> k - 1])]
    /\ buses_clean = <<>>
    /\ lines = <<>>
    /\ tol = 0
    /\ i = 1
    /\ station_id = 0
    /\ transformers = <<>>
    /\ converters = <<>>
    /\ lines_to_add = <<>>
    /\ lines_to_split = <<>>
    /\ NoRegions

\* the function: the only record given to the logger is the one about
\* voltages
LoadBuses ==
    /\ pc = "_load_buses_from_osm"
    /\ network' = load_buses_from_osm(buses)
    /\ log' = Append(log,
                 [level |-> "info", msg |-> "Removing buses with voltages",
                  voltages |-> {network'[k].v_nom : k \in DOMAIN network'}
                                  \ Range(electricity_voltages)])
    /\ pc' = "loaded"
    /\ UNCHANGED network_vars
    /\ UNCHANGED <<config, points, outline, polygons_arr, country_shapes, offshore_shapes,
                   country, onshore_regions, offshore_regions, regions_onshore,
                   regions_offshore>>

NextLoadBuses == LoadBuses

SpecLoadBuses == InitLoadBuses /\ [][NextLoadBuses]_vars

(***************************************************************************)
(* built_network: the stages of one run under the settings of               *)
(* build_osm_network, from the input files to the output files.  buses and  *)
(* lines are the tables of the function; at pc = "written" they,            *)
(* transformers and converters are the tables of the output files.          *)
(***************************************************************************)
MaxBuiltBuses == 2
MaxBuiltLines == 1

BuiltLocations == {<<0, 0>>, <<3, 0>>, <<6, 0>>}

BuiltPaths == {<< <<0, 0>>, <<6, 0>> >>}

\* config["build_osm_network"], the tolerances in metres
Configs == [force_ac : BOOLEAN,
            split_overpassing_lines : BOOLEAN,
            overpassing_lines_tolerance : {1},
            group_close_buses : BOOLEAN,
            group_tolerance_buses : {0}]

BuiltBus == [geometry : BuiltLocations, voltage : NetVoltages, dc : {FALSE},
             country : {"BO"}]

\* the substations file: every bus with its bus_id, a station of its own
file_buses(t) ==
    [k \in DOMAIN t |-> WithColumns(t[k], [bus_id |-> k - 1, station_id |-> k - 1])]

BuiltLine == {[line_id |-> <<0>>, voltage |-> v, dc |-> FALSE, geometry |-> g,
               length |-> path_length(path_to_crs(g))] :
                 v \in NetVoltages, g \in BuiltPaths}

\* the country shapes file: BO has buses, PE has none
BuiltShapes == [c \in Range(countries) |->
                   IF c = "BO" THEN Rect(6, 2) ELSE (8..10) \X (0..2)]

InitBuilt ==
    /\ pc = "Stage 1"
    /\ config \in Configs
    /\ \E t \in SeqsUpTo(BuiltBus, MaxBuiltBuses) : buses = file_buses(t)
    /\ \E t \in SeqsUpTo(BuiltLine, MaxBuiltLines) : lines = with_line_ids(t)
    /\ tol = 0
    /\ i = 1
    /\ station_id = 0
    /\ buses_clean = <<>>
    /\ transformers = <<>>
    /\ converters = <<>>
    /\ lines_to_add = <<>>
    /\ lines_to_split = <<>>
    /\ country_shapes = BuiltShapes
    /\ points = <<>>
    /\ outline = {}
    /\ polygons_arr = <<>>
    /\ network = <<>>
    /\ offshore_shapes = <<>>
    /\ country = 1
    /\ onshore_regions = <<>>
    /\ offshore_regions = <<>>
    /\ regions_onshore = "none"
    /\ regions_offshore = "none"
    /\ log = <<>>

\* force_ac_lines: every line AC at the default frequency
force_ac_lines(df) ==
    [k \in DOMAIN df |-> WithColumns(df[k], [tag_frequency |-> 50, dc |-> FALSE])]

\* Stage 2, and the test of split_overpassing_lines that opens Stage 3
Stage2 ==
    /\ pc = "Stage 2"
    /\ lines' = IF config.force_ac THEN force_ac_lines(lines) ELSE lines
    /\ buses' = IF config.force_ac
                THEN [k \in DOMAIN buses |-> [buses[k] EXCEPT !.dc = FALSE]]
                ELSE buses
    /\ IF config.split_overpassing_lines
       THEN pc' = "Stage 3" /\ tol' = config.overpassing_lines_tolerance
       ELSE pc' = "Stage 4" /\ UNCHANGED tol
    /\ UNCHANGED region_vars
    /\ UNCHANGED <<buses_clean, i, station_id, transformers, converters,
                   lines_to_add, lines_to_split>>

\* Stage 4: merge_stations_lines_by_station_id_and_voltage when
\* group_close_buses is set, nothing otherwise
Stage4 ==
    /\ pc = "Stage 4"
    /\ IF config.group_close_buses
       THEN LET clean == merge_stations_same_station_id(
                             set_substations_ids(buses, config.group_tolerance_buses))
                r == set_lines_ids(lines, clean)
                kept == drop_self_loops(r.lines)
            IN /\ tol' = config.group_tolerance_buses
               /\ IF r.raised \/ EndingsRaise(kept)
                  THEN pc' = "raised" /\ UNCHANGED <<buses, lines>>
                  ELSE /\ pc' = "Stage 5"
                       /\ lines' = line_endings_to_bus_conversion(kept)
                       /\ buses' = set_lv_substations(clean)
       ELSE pc' = "Stage 5" /\ UNCHANGED <<buses, lines, tol>>
    /\ UNCHANGED region_vars
    /\ UNCHANGED <<buses_clean, i, station_id, transformers, converters,
                   lines_to_add, lines_to_split>>

\* set(country_list).difference(set(bus_country_list))
no_data_countries(b) ==
    {c \in Range(countries) : \A k \in DOMAIN b : b[k].country # c}

\* the centroid of a rectangle
centroid(shape) ==
    <<(bounds(shape).minx + bounds(shape).maxx) \div 2,
      (bounds(shape).miny + bounds(shape).maxy) \div 2>>

\* the rows appended for the countries without a bus, in the order of the
\* shapes file; station_id -1 stands for NaN (a row that groupby leaves out;
\* a single row of station -1 gives no transformer and no converter either)
augmented_buses(b, shapes) ==
    LET names == SelectSeq(countries, LAMBDA c : c \in no_data_countries(b))
    IN [n \in DOMAIN names |->
          [voltage |-> 220000,
           country |-> names[n],
           lon |-> centroid(shapes[names[n]])[1],
           lat |-> centroid(shapes[names[n]])[2],
           bus_id |-> Len(b) + n,
           station_id |-> -1,
           dc |-> FALSE,
           geometry |-> centroid(shapes[names[n]]),
           substation_lv |-> TRUE]]

\* set(country_list).symmetric_difference(set(bus_country_list))
non_allocated_countries(b) ==
    (Range(countries) \ {b[k].country : k \in DOMAIN b})
        \cup ({b[k].country : k \in DOMAIN b} \ Range(countries))

\* Stage 5 and "Save outputs": the augmented substations, the transformers and
\* the converters, and the four tables written
Stage5 ==
    /\ pc = "Stage 5"
    /\ buses' = buses \o augmented_buses(buses, country_shapes)
    /\ log' = IF non_allocated_countries(buses) # {}
              THEN Append(log, [level |-> "error",
                                msg |-> "countries could not be allocated properly",
                                countries |-> non_allocated_countries(buses)])
              ELSE log
    /\ transformers' = get_transformers(buses')
    /\ converters' = get_converters(buses')
    /\ pc' = "written"
    /\ UNCHANGED <<config, points, outline, polygons_arr, network, country_shapes,
                   offshore_shapes, country, onshore_regions, offshore_regions,
                   regions_onshore, regions_offshore>>
    /\ UNCHANGED <<buses_clean, lines, tol, i, station_id, lines_to_add,
                   lines_to_split>>

NextBuilt ==
    ReadInputs \/ Stage2 \/ VerifyLine \/ ConcatAndReturn \/ Stage4 \/ Stage5

SpecBuilt == InitBuilt /\ [][NextBuilt]_vars

(***************************************************************************)
(* Properties of set_substations_ids                                        *)
(***************************************************************************)
StationsSet == pc = "stations_set"

\* distance of buses j and k in distance_crs is within the tolerance
BusesWithinTol(j, k) ==
    WithinTol(to_crs(buses[j].geometry), to_crs(buses[k].geometry), tol)

RECURSIVE Component(_)
\* the buses joined to a bus of S by a chain of buses, each within tol of the next
Component(S) ==
    LET N == S \cup {j \in DOMAIN buses : \E k \in S : BusesWithinTol(j, k)}
    IN IF N = S THEN S ELSE Component(N)

\* C2: after set_substations_ids returns, every bus has a station id >= 0
\* (the placeholder -1 is left on no bus), for every tolerance tol >= 0.
C2_NoPlaceholderLeft ==
    StationsSet => \A k \in DOMAIN buses : buses[k].station_id >= 0

\* the pass is over, and the third bus took its id from the second, which is
\* within tol of it, while the first is not
C2_Witness ==
    /\ StationsSet /\ Len(buses) = 3
    /\ buses[1].station_id = buses[3].station_id
    /\ BusesWithinTol(1, 2) /\ BusesWithinTol(2, 3) /\ ~BusesWithinTol(1, 3)

\* C3 as stated: with tol = 0 no two buses carry the same station id.
C3_NoTwoBusesMerged ==
    (StationsSet /\ tol = 0) =>
        \A j, k \in DOMAIN buses : j # k => buses[j].station_id # buses[k].station_id

\* C3 amended: with tol = 0 two buses carry the same station id exactly when
\* they are at the same location; buses at different locations never merge.
C3_MergedIffSameLocation ==
    (StationsSet /\ tol = 0) =>
        \A j, k \in DOMAIN buses :
            (buses[j].station_id = buses[k].station_id)
                <=> (buses[j].geometry = buses[k].geometry)

\* tol = 0, two buses at one location and a third elsewhere
C3_Witness ==
    /\ StationsSet /\ tol = 0 /\ Len(buses) = 3
    /\ buses[1].geometry = buses[3].geometry
    /\ buses[1].geometry # buses[2].geometry
    /\ buses[1].station_id = buses[3].station_id

\* C4 as stated: two buses with the same station id are within tol of each other.
C4_MembersMutuallyWithinTol ==
    StationsSet =>
        \A j, k \in DOMAIN buses :
            buses[j].station_id = buses[k].station_id => BusesWithinTol(j, k)

\* C4 amended: two buses with the same station id are joined by a chain of
\* buses, each within tol of the next.
C4_MembersJoinedByChain ==
    StationsSet =>
        \A j, k \in DOMAIN buses :
            buses[j].station_id = buses[k].station_id => k \in Component({j})

\* two buses of one station that are farther than tol from each other
C4_Witness ==
    /\ StationsSet
    /\ \E j, k \in DOMAIN buses :
          /\ buses[j].station_id = buses[k].station_id
          /\ ~BusesWithinTol(j, k)


(***************************************************************************)
(* Properties of merge_stations_same_station_id                             *)
(***************************************************************************)
Merged == pc \in {"get_transformers", "get_converters", "Save outputs"}

\* the (station_id, voltage, dc) combination of a row
Combination(r) == <<r.station_id, r.voltage, r.dc>>

\* the consolidated buses of station g
CleanOfStation(g) == {c \in DOMAIN buses_clean : buses_clean[c].station_id = g}

CleanStations == {buses_clean[c].station_id : c \in DOMAIN buses_clean}

\* C5: merge_stations_same_station_id outputs exactly one consolidated bus
\* for each (station_id, voltage, dc) combination of its input buses and no
\* other bus.
C5_OneBusPerCombination ==
    Merged =>
        /\ {Combination(buses_clean[c]) : c \in DOMAIN buses_clean}
               = {Combination(buses[k]) : k \in DOMAIN buses}
        /\ \A c, d \in DOMAIN buses_clean :
               Combination(buses_clean[c]) = Combination(buses_clean[d]) => c = d

\* two stations, one of them with two input buses of one combination
C5_Witness ==
    /\ Merged /\ Len(buses) = 3 /\ Len(buses_clean) = 2
    /\ buses_clean[1].station_id # buses_clean[2].station_id
    /\ Combination(buses[1]) = Combination(buses[3])

\* the groups of c's station that come before c's group, in ascending voltage
\* then polarity
GroupsBefore(c) ==
    {d \in CleanOfStation(buses_clean[c].station_id) :
        \/ buses_clean[d].voltage < buses_clean[c].voltage
        \/ /\ buses_clean[d].voltage = buses_clean[c].voltage
           /\ ~buses_clean[d].dc /\ buses_clean[c].dc}

\* C6: within a station the k-th group (ascending voltage, then polarity) is
\* at the station point shifted by k times (delta_lon, delta_lat), so the
\* consolidated buses of a station are at pairwise different locations.
C6_GroupsShiftedApart ==
    Merged =>
        \A c \in DOMAIN buses_clean :
            LET g == buses_clean[c].station_id
                point == station_point(StationRows(buses, g))
                k == Cardinality(GroupsBefore(c))
            IN /\ buses_clean[c].geometry
                     = <<point[1] + k * delta_lon, point[2] + k * delta_lat>>
               /\ \A d \in CleanOfStation(g) :
                     d # c => buses_clean[d].geometry # buses_clean[c].geometry

\* a station of three groups
C6_Witness ==
    /\ Merged /\ Len(buses_clean) = 3
    /\ CleanStations = {0}
    /\ buses_clean[3].geometry[1] = buses_clean[1].geometry[1] + 2 * delta_lon

(***************************************************************************)
(* Properties of get_transformers and get_converters                        *)
(***************************************************************************)
TransformersMade == pc \in {"get_converters", "Save outputs"}

ConvertersMade == pc = "Save outputs"

AcOfStation(g) == {c \in CleanOfStation(g) : ~buses_clean[c].dc}

DcOfStation(g) == {c \in CleanOfStation(g) : buses_clean[c].dc}

\* the pairs of AC buses of station g next to each other in ascending voltage
ConsecutiveAc(g) ==
    {<<buses_clean[a].bus_id, buses_clean[b].bus_id>> : <<a, b>> \in
        {p \in AcOfStation(g) \X AcOfStation(g) :
            /\ buses_clean[p[1]].voltage < buses_clean[p[2]].voltage
            /\ ~\E m \in AcOfStation(g) :
                  /\ buses_clean[p[1]].voltage < buses_clean[m].voltage
                  /\ buses_clean[m].voltage < buses_clean[p[2]].voltage}}

\* the rows of the transformer table made for station g
TransformersOf(g) == {n \in DOMAIN transformers : transformers[n].line_id[2] = g}

\* C8: for every station, get_transformers emits exactly one transformer for
\* each pair of AC buses consecutive in ascending voltage (bus0 the lower
\* one) and no other: k AC voltage levels give k-1 transformers, one AC level
\* or none gives no transformer.
C8_TransformersBetweenConsecutive ==
    TransformersMade =>
        /\ \A n \in DOMAIN transformers : transformers[n].line_id[2] \in CleanStations
        /\ \A g \in CleanStations :
             LET k == Cardinality({buses_clean[c].voltage : c \in AcOfStation(g)})
             IN /\ {<<transformers[n].bus0, transformers[n].bus1>> :
                        n \in TransformersOf(g)} = ConsecutiveAc(g)
                /\ Cardinality(TransformersOf(g)) = Cardinality(ConsecutiveAc(g))
                /\ Cardinality(TransformersOf(g)) = IF k = 0 THEN 0 ELSE k - 1

\* a station of three AC voltage levels with its two transformers
C8_Witness ==
    /\ TransformersMade
    /\ Len(buses_clean) = 3 /\ Cardinality(AcOfStation(0)) = 3
    /\ Len(transformers) = 2

\* the rows of the converter table made for station g
ConvertersOf(g) == {n \in DOMAIN converters : converters[n].converter_id[2] = g}

\* the AC buses of station g whose voltage is closest to that of DC bus d
ClosestAc(g, d) ==
    {a \in AcOfStation(g) : \A m \in AcOfStation(g) :
        Abs(buses_clean[a].voltage - buses_clean[d].voltage)
            <= Abs(buses_clean[m].voltage - buses_clean[d].voltage)}

\* C9: a station with a DC bus and an AC bus gets exactly one converter per DC
\* bus, from that DC bus (bus0) to an AC bus of the station of the closest
\* voltage (bus1); a station without AC bus or without DC bus gets none.
C9_OneConverterPerDcBus ==
    ConvertersMade =>
        /\ \A n \in DOMAIN converters :
               converters[n].converter_id[2] \in CleanStations
        /\ \A g \in CleanStations :
             IF AcOfStation(g) # {} /\ DcOfStation(g) # {}
             THEN /\ Cardinality(ConvertersOf(g)) = Cardinality(DcOfStation(g))
                  /\ \A d \in DcOfStation(g) :
                       \E n \in ConvertersOf(g) :
                          /\ converters[n].bus0 = buses_clean[d].bus_id
                          /\ \E a \in ClosestAc(g, d) :
                                converters[n].bus1 = buses_clean[a].bus_id
                          /\ \A m \in ConvertersOf(g) :
                                converters[m].bus0 = buses_clean[d].bus_id => m = n
             ELSE ConvertersOf(g) = {}

\* a station with one DC bus and two AC buses, the higher AC voltage closest
C9_Witness ==
    /\ ConvertersMade
    /\ Len(buses_clean) = 3 /\ CleanStations = {0}
    /\ Cardinality(DcOfStation(0)) = 1
    /\ Len(converters) = 1
    /\ \E a \in AcOfStation(0) :
          /\ converters[1].bus1 = buses_clean[a].bus_id
          /\ \E m \in AcOfStation(0) : buses_clean[m].voltage < buses_clean[a].voltage


(***************************************************************************)
(* Properties of set_lines_ids and of the removal of self loops             *)
(***************************************************************************)
\* the consolidated buses of the voltage and polarity of line l
Candidates(l) ==
    {c \in DOMAIN buses_clean :
        /\ buses_clean[c].voltage = lines[l].voltage
        /\ buses_clean[c].dc = lines[l].dc}

\* bus_id is the id of a candidate of line l at the least distance of point
NearestCandidate(l, bus_id, point) ==
    \E c \in Candidates(l) :
        /\ buses_clean[c].bus_id = bus_id
        /\ \A d \in Candidates(l) :
              Dist2(to_crs(buses_clean[c].geometry), to_crs(point))
                  <= Dist2(to_crs(buses_clean[d].geometry), to_crs(point))

\* C1: every line of the table returned by
\* merge_stations_lines_by_station_id_and_voltage has bus0 # bus1.
C1_NoSelfLoopReturned ==
    pc = "returned" => \A l \in DOMAIN lines : lines[l].bus0 # lines[l].bus1

\* the function returned and, of two consolidated buses, one took both ends
\* of a line, which was dropped
C1_Witness ==
    /\ pc = "returned"
    /\ Len(buses_clean) = 2
    /\ lines = <<>>

\* C7: set_lines_ids gives each end of a line the bus_id of a bus of the
\* line's voltage and polarity at the least distance of that raw end point
\* among the buses of that voltage and polarity, never a bus of another
\* voltage or polarity.
C7_EndsAtNearestCandidate ==
    pc = "drop" =>
        \A l \in DOMAIN lines :
            /\ NearestCandidate(l, lines[l].bus0, lines[l].bus_0_coors)
            /\ NearestCandidate(l, lines[l].bus1, lines[l].bus_1_coors)

\* a line end took a bus of its class although a bus of another class is
\* strictly nearer to that end
C7_Witness ==
    /\ pc = "drop"
    /\ \E l \in DOMAIN lines : \E c, d \in DOMAIN buses_clean :
          /\ buses_clean[c].bus_id = lines[l].bus0
          /\ d \notin Candidates(l)
          /\ Dist2(to_crs(buses_clean[d].geometry), to_crs(lines[l].bus_0_coors))
                < Dist2(to_crs(buses_clean[c].geometry), to_crs(lines[l].bus_0_coors))

(***************************************************************************)
(* Properties of fix_overpassing_lines                                      *)
(***************************************************************************)
\* the locations of the buses line l passes within tol of its path and
\* farther than tol from both of its end points
OverpassedLocations(l) ==
    {buses[k].geometry : k \in
        {k \in DOMAIN buses :
            /\ PathWithinTol(path_to_crs(lines[l].geometry),
                             to_crs(buses[k].geometry), tol)
            /\ ~WithinTol(to_crs(buses[k].geometry), to_crs(lines[l].bus_0_coors), tol)
            /\ ~WithinTol(to_crs(buses[k].geometry), to_crs(lines[l].bus_1_coors), tol)}}

\* the paths of segs run from the first point of path to its last, each
\* starting where the one before ends
Chain(segs, path) ==
    /\ segs[1].geometry[1] = path[1]
    /\ segs[Len(segs)].geometry[Len(segs[Len(segs)].geometry)] = path[Len(path)]
    /\ \A n \in 1..(Len(segs) - 1) :
          segs[n + 1].geometry[1] = segs[n].geometry[Len(segs[n].geometry)]

\* C10: a line that passes N overpassed buses (at N places) is split into
\* N+1 segments, which form a chain from its first point to its last.  Stated
\* for the split lines all of whose buses found within tol of the path are
\* farther than tol from both end points of the line.
C10_SplitIntoChainOfSegments ==
    pc = "Stage 3" =>
    \A n \in DOMAIN lines_to_split :
        LET l == lines_to_split[n] IN
        {buses[k].geometry : k \in bus_in_tol(buses, lines[l].geometry, tol)}
                = OverpassedLocations(l)
            => /\ Len(lines_to_add[n]) = Cardinality(OverpassedLocations(l)) + 1
               /\ Chain(lines_to_add[n], lines[l].geometry)

\* the rows of table t that are segments of the line with line_id id
SegmentsOf(t, id) ==
    {k \in DOMAIN t : /\ Len(t[k].line_id) = Len(id) + 1
                      /\ SubSeq(t[k].line_id, 1, Len(id)) = id}

\* C11: in the table fix_overpassing_lines returns, the record of a split line
\* is absent and its segments are there instead: as many as the pieces of its
\* path, the piece of index m with line_id  <line_id>_m  and with the line's
\* voltage (its attribute that is not derived from the path).
C11_SplitLineReplacedBySegments ==
    [][pc = "Stage 3" /\ pc' = "Stage 4" =>
        \A n \in DOMAIN lines_to_split :
            LET line == lines[lines_to_split[n]]
                segs == SegmentsOf(lines', line.line_id)
            IN /\ \A k \in DOMAIN lines' : lines'[k].line_id # line.line_id
               /\ Cardinality(segs) = Len(lines_to_add[n])
               /\ \A m \in 0..(Len(lines_to_add[n]) - 1) :
                     \E k \in segs :
                        /\ lines'[k].line_id = Append(line.line_id, m)
                        /\ lines'[k].geometry = lines_to_add[n][m + 1].geometry
                        /\ lines'[k].voltage = line.voltage]_vars

\* a line was split in three and the table returned
C11_Witness ==
    /\ pc = "Stage 4"
    /\ \E n \in DOMAIN lines_to_add : Len(lines_to_add[n]) = 3

(***************************************************************************)
(* Properties of custom_voronoi_partition_pts                               *)
(***************************************************************************)
\* C12: given exactly one seed point, custom_voronoi_partition_pts returns a
\* single region, and it is the outline polygon itself.
C12_SingleSeedRegionIsOutline ==
    Len(points) = 1 =>
        /\ pc # "raised"
        /\ pc = "returned" => polygons_arr = <<outline>>

\* one seed, away from the bounds of the outline, and the region returned
C12_Witness ==
    /\ pc = "returned"
    /\ points = << <<1, 1>> >>
    /\ outline = Rect(4, 4)

\* C13: with two or more seeds (at different locations) in one outline, two
\* regions returned have no point in common except points of their shared
\* boundary, which are as near to the one seed as to the other, and the
\* regions together cover the outline.
C13_RegionsPartitionOutline ==
    (pc = "returned" /\ Len(points) >= 2 /\ Distinct(points)) =>
        /\ \A j, k \in DOMAIN polygons_arr :
              j # k =>
                 \A p \in polygons_arr[j] \cap polygons_arr[k] :
                     Dist2(p, points[j]) = Dist2(p, points[k])
        /\ UNION Range(polygons_arr) = outline

\* C16: given two or more seed points that are all at one location, the
\* partitioner returns the whole outline as a single region.
C16_CoincidentSeedsGiveOutline ==
    (Len(points) >= 2 /\ Cardinality(Range(points)) = 1) =>
        /\ pc # "raised"
        /\ pc = "returned" => polygons_arr = <<outline>>

(***************************************************************************)
(* Properties of the handling of lines that cannot be resolved              *)
(***************************************************************************)
\* C14: a line for which no bus has both its voltage and its polarity does
\* not abort the run, and it is not in the line table that is returned.
C14_LineWithoutCandidateExcluded ==
    pc \in {"raised", "returned"} =>
        \A l \in DOMAIN lines : buses_sel(buses_clean, lines[l]) # {}

\* C15: computing the line endings never aborts the run, and no line whose
\* path is empty or closed is in the table it gives.
C15_MalformedLineExcluded ==
    /\ pc # "raised"
    /\ pc = "Stage 2" => \A l \in DOMAIN lines : boundary(lines[l].geometry) # <<>>

(***************************************************************************)
(* Properties of the per-country loop of build_bus_regions                  *)
(***************************************************************************)
\* the labels of the low voltage buses of the country at position n
LvBuses(n) == locs(network, countries[n], "substation_lv")

\* C17: a failure while the regions of one country are computed does not end
\* the run inside the loop, and the onshore regions of every other country
\* that has low voltage buses are in the file written.
C17_FailureAbortsOnlyThatCountry ==
    /\ pc = "raised" => country > Len(countries)
    /\ pc = "written" =>
          \A n \in DOMAIN countries :
              LvBuses(n) # <<>> =>
                  \E row \in DOMAIN regions_onshore :
                      regions_onshore[row].country = countries[n]

(***************************************************************************)
(* Properties of _load_buses_from_osm                                       *)
(***************************************************************************)
\* the buses of the file that are not in the table loaded
Excluded == {k \in DOMAIN buses :
                \A n \in DOMAIN network : network[n].bus_id # buses[k].bus_id}

\* C18: whenever a bus that has no country is left out of the bus table, a
\* warning is given to the logger.
C18_NoCountryBusDroppedWithTrace ==
    pc = "loaded" =>
        ((\E k \in Excluded : buses[k].country = "nan")
            => \E n \in DOMAIN log : log[n].level = "warning")

\* the row of the consolidated bus table with bus_id id
CleanBus(id) == CHOOSE c \in DOMAIN buses_clean : buses_clean[c].bus_id = id

\* C19: the two buses a transformer of get_transformers connects carry the
\* same country tag, and the country of the transformer is that tag.
C19_TransformerCountriesAgree ==
    TransformersMade =>
        \A n \in DOMAIN transformers :
            /\ buses_clean[CleanBus(transformers[n].bus0)].country
                  = buses_clean[CleanBus(transformers[n].bus1)].country
            /\ transformers[n].country
                  = buses_clean[CleanBus(transformers[n].bus0)].country

(***************************************************************************)
(* The visit of one bus by set_substations_ids                              *)
(***************************************************************************)
\* the buses within tol of bus k, bus k among them
WithinTolOf(k) == {j \in DOMAIN buses : BusesWithinTol(j, k)}

\* the buses that hold a station id
Assigned == {j \in DOMAIN buses : buses[j].station_id >= 0}

FirstId == buses[Min(WithinTolOf(i) \cap Assigned)].station_id

\* C21 as stated: once a bus holds a station id no later step of the pass
\* changes it.
C21_AssignedIdNeverChanges ==
    [][\A j \in Assigned : buses'[j].station_id = buses[j].station_id]_vars

\* C21 amended: the id a bus holds changes only when a bus that holds none is
\* visited within tol of it, and it becomes the first id found within tol of
\* the visited bus; that visit writes the first id to every bus within tol,
\* the assigned ones too.
C21_AssignedIdChangesOnlyToFirstId ==
    [][(pc = "set_substations_ids" /\ i' = i + 1) =>
        /\ \A j \in Assigned :
              buses'[j].station_id # buses[j].station_id =>
                 /\ i \notin Assigned
                 /\ j \in WithinTolOf(i)
                 /\ buses'[j].station_id = FirstId
        /\ (i \notin Assigned /\ WithinTolOf(i) \cap Assigned # {}) =>
              \A j \in WithinTolOf(i) : buses'[j].station_id = FirstId]_vars

\* the buses along the road at 0, 4, 2, 1, 3: the bus at 3 took id 1 from the
\* visit of the bus at 4, and the visit of the bus at 2 has changed it to 0
C21_Witness ==
    /\ pc = "set_substations_ids"
    /\ [k \in DOMAIN buses |-> buses[k].geometry[1]] = <<0, 4, 2, 1, 3>>
    /\ i = 4
    /\ buses[5].station_id = 0
    /\ buses[2].station_id = 1

\* buses 1 and 2 are the ends of a chain 1 - 3 - 4 - 2 of buses each within
\* tol of the next, and no other two of the four are within tol
EndsFirst ==
    /\ Len(buses) = 4
    /\ BusesWithinTol(1, 3) /\ BusesWithinTol(3, 4) /\ BusesWithinTol(4, 2)
    /\ ~BusesWithinTol(1, 2) /\ ~BusesWithinTol(1, 4) /\ ~BusesWithinTol(2, 3)

\* C22: the pass is not a transitive closure and depends on the input order.
\* For four buses in a chain with the two ends first in the input, the two
\* inner buses, within tol of each other, end in different stations; on the
\* same buses with an inner bus first in the input, all four end in one.
C22_EndsFirstSplitsChain ==
    (StationsSet /\ EndsFirst) =>
        /\ buses[3].station_id # buses[4].station_id
        /\ LET r == set_substations_ids(<<buses[3], buses[1], buses[2], buses[4]>>, tol)
           IN \A k \in DOMAIN r : r[k].station_id = r[1].station_id

\* the pass has ended on such a chain
C22_Witness ==
    /\ StationsSet
    /\ EndsFirst
    /\ buses[1].station_id = buses[3].station_id
    /\ buses[2].station_id = buses[4].station_id

\* C28: the station ids present after set_substations_ids are 0, 1, ..., k-1
\* where k is the number of ids allocated (the counter), and at every step of
\* the pass each id allocated so far is held by a bus already visited.
C28_IdsAreInitialSegment ==
    /\ StationsSet =>
          {buses[k].station_id : k \in DOMAIN buses} = 0..(station_id - 1)
    /\ pc = "set_substations_ids" =>
          \A n \in 0..(station_id - 1) :
              \E k \in 1..(i - 1) : buses[k].station_id = n

\* the pass has ended, two ids were allocated, and a bus that held id 1 now
\* holds id 0
C28_Witness ==
    /\ StationsSet
    /\ station_id = 2
    /\ [k \in DOMAIN buses |-> buses[k].geometry[1]] = <<0, 4, 2, 1, 3>>
    /\ buses[5].station_id = 0

(***************************************************************************)
(* The base location of a consolidated bus                                  *)
(***************************************************************************)
\* the mean of the locations of the raw buses S, rounded to precision
MeanLocation(S) ==
    <<np_round(Sum([k \in S |-> buses[k].geometry[1]], S), Cardinality(S)),
      np_round(Sum([k \in S |-> buses[k].geometry[2]], S), Cardinality(S))>>

\* the location of consolidated bus c without the offset of its group
BaseLocation(c) ==
    <<buses_clean[c].geometry[1] - Cardinality(GroupsBefore(c)) * delta_lon,
      buses_clean[c].geometry[2] - Cardinality(GroupsBefore(c)) * delta_lat>>

\* the raw buses of the station of consolidated bus c
RawOfStation(c) ==
    {k \in DOMAIN buses : buses[k].station_id = buses_clean[c].station_id}

\* the raw buses that contribute to consolidated bus c
RawOfGroup(c) ==
    {k \in RawOfStation(c) : /\ buses[k].voltage = buses_clean[c].voltage
                             /\ buses[k].dc = buses_clean[c].dc}

\* C23 as stated: the base location of a consolidated bus is the mean of the
\* locations of the raw buses of its own (station, voltage, polarity) group.
C23_BaseIsMeanOfGroup ==
    Merged => \A c \in DOMAIN buses_clean : BaseLocation(c) = MeanLocation(RawOfGroup(c))

\* C23 amended: the base location of a consolidated bus is the mean of the
\* locations of all raw buses of its station, whatever their voltage and
\* polarity, rounded to precision decimals.
C23_BaseIsMeanOfStation ==
    Merged => \A c \in DOMAIN buses_clean : BaseLocation(c) = MeanLocation(RawOfStation(c))

\* a consolidated bus whose station has raw buses of another group elsewhere
C23_Witness ==
    /\ Merged
    /\ \E c \in DOMAIN buses_clean :
          MeanLocation(RawOfGroup(c)) # MeanLocation(RawOfStation(c))

(***************************************************************************)
(* The path of a line after set_lines_ids                                   *)
(***************************************************************************)
\* the location of the consolidated bus with bus_id id
LocationOf(id) == buses_clean[CleanBus(id)].geometry

\* path with the point put before it, unless the path starts there
StartAt(point, path) == IF path[1] = point THEN path ELSE <<point>> \o path

\* path with the point put after it, unless the path ends there
EndAt(path, point) == IF path[Len(path)] = point THEN path ELSE path \o <<point>>

NearAnEnd(l) ==
    {k \in DOMAIN buses :
        \/ WithinTol(to_crs(buses[k].geometry), to_crs(lines[l].bus_0_coors), tol)
        \/ WithinTol(to_crs(buses[k].geometry), to_crs(lines[l].bus_1_coors), tol)}

\* C25: a bus within tol of either end point of a line is never counted as
\* overpassed by it: every line in the split list has a bus within tol of its
\* path and farther than tol from both of its end points, and no segment of a
\* split line starts at the location of a bus within tol of an end point.
C25_EndBusesNeverOverpassed ==
    pc = "Stage 3" =>
        \A n \in DOMAIN lines_to_split :
            LET l == lines_to_split[n] IN
            /\ OverpassedLocations(l) # {}
            /\ \A m \in 2..Len(lines_to_add[n]) :
                  \A k \in NearAnEnd(l) :
                      lines_to_add[n][m].geometry[1] # buses[k].geometry

\* the guard points of the call: the sites after the seeds
GuardPoints == {sites(points, outline)[k] : k \in Len(points) + 1..Len(points) + 4}

\* C27: for two or more seeds, the four guard points lie strictly outside the
\* bounding box of the outline, each at multiplier times the span of the
\* bounding box beyond it, wherever the seeds are inside the outline.
C27_GuardsOutsideBoundingBox ==
    (pc # "custom_voronoi_partition_pts" /\ Len(points) >= 2) =>
        LET o == bounds(outline)
            xspan == o.maxx - o.minx
            yspan == o.maxy - o.miny
        IN /\ GuardPoints
                = {<<o.minx - multiplier * xspan, o.miny - multiplier * yspan>>,
                   <<o.minx - multiplier * xspan, o.maxy + multiplier * yspan>>,
                   <<o.maxx + multiplier * xspan, o.miny - multiplier * yspan>>,
                   <<o.maxx + multiplier * xspan, o.maxy + multiplier * yspan>>}
           /\ \A g \in GuardPoints :
                 \/ g[1] < o.minx
                 \/ g[1] > o.maxx
                 \/ g[2] < o.miny
                 \/ g[2] > o.maxy

\* C29: when no line has a bus to be split at, fix_overpassing_lines returns
\* normally with the line table and the bus table as they were; and in every
\* call the lines that are not split keep their attributes and the bus table
\* is returned as it was.
C29_NothingToSplitReturnsUnchanged ==
    /\ [](pc = "raised" => lines_to_split # <<>>)
    /\ [][/\ buses' = buses
          /\ (pc = "Stage 3" /\ pc' = "Stage 4") =>
                \A l \in DOMAIN lines :
                    (\A n \in DOMAIN lines_to_split : lines_to_split[n] # l)
                        => \E m \in DOMAIN lines' : lines'[m] = lines[l]]_vars

\* the buses of the station of bus k in the table set_lv_substations returns
StationOf(k) ==
    {j \in DOMAIN buses_clean : buses_clean[j].station_id = buses_clean[k].station_id}

\* C30: after set_lv_substations every station id has exactly one bus with
\* substation_lv = True, that bus has the lowest voltage among the buses of
\* its station, and a bus alone in its station has substation_lv = True.
C30_OneLvBusPerStation ==
    pc = "returned" =>
        \A k \in DOMAIN buses_clean :
            /\ Cardinality({j \in StationOf(k) : buses_clean[j].substation_lv}) = 1
            /\ buses_clean[k].substation_lv =>
                  \A j \in StationOf(k) :
                      buses_clean[k].voltage <= buses_clean[j].voltage
            /\ StationOf(k) = {k} => buses_clean[k].substation_lv

\* a station of two buses of different voltages, and the higher one not lv
C30_Witness ==
    /\ pc = "returned"
    /\ \E j, k \in DOMAIN buses_clean :
          /\ j \in StationOf(k)
          /\ buses_clean[j].voltage < buses_clean[k].voltage
          /\ buses_clean[j].substation_lv
          /\ ~buses_clean[k].substation_lv

\* the rows of the line table that are segments of a split line
Segments == {l \in DOMAIN lines : Len(lines[l].line_id) = 2}

\* C26: in built_network, whenever the overpassing correction is enabled every
\* segment is afterwards run through the end point assignment: in the tables
\* written each segment has bus0 and bus1 set to bus ids of the bus table
\* written, whatever the setting of group_close_buses.
C26_SegmentsHaveEndBuses ==
    (pc = "written" /\ config.split_overpassing_lines) =>
        \A l \in Segments :
            /\ {"bus0", "bus1"} \subseteq DOMAIN lines[l]
            /\ \E k \in DOMAIN buses : buses[k].bus_id = lines[l].bus0
            /\ \E k \in DOMAIN buses : buses[k].bus_id = lines[l].bus1

====
